---- MODULE Spec2Model ----
(***************************************************************************)
(* The coordinator of daniel-olson-code/pipeline (src/pipeline.py): the    *)
(* step table, the blob store keys step/{id} and step-data/{id}, the       *)
(* in-memory tag_usage table, the request handlers served one at a time by *)
(* server_worker, the admission loop of upload_pipe_code run by a client   *)
(* process, and the decrement_tag_usage thread.                            *)
(***************************************************************************)
EXTENDS Integers, Sequences, FiniteSets, TLC

VARIABLES
    world,          \* the parsed bundle being admitted and the tags table (fixed)
    steps,          \* table steps: rows in rowid order
    step_defs,      \* ids s with a blob under step/{s}
    step_data,      \* ids s with a blob under step-data/{s}
    tag_usage,      \* the global dict tag_usage
    now,            \* time.time()
    admit_pc,       \* position of upload_pipe_code in its loop
    alive,          \* the server_worker thread has not died of an exception
    net,            \* connection_queue and the connection server_worker has in hand
    scan,           \* get_steps between two pages: its arguments and locals
    jobs,           \* worker.job per step: its position, the result of the body,
                    \* the reports it sent and the report on its way
    tick_todo,      \* decrement_tag_usage: keys still to decrement in this pass
    tick_tmp,       \* decrement_tag_usage: the value read for the key in hand
    window,         \* history: dispatches per tag in the last two tick intervals
    holders,        \* history: leases handed out on a step and still in force
    last            \* history: the handler that ran in the last step

vars == <<world, steps, step_defs, step_data, tag_usage, now, admit_pc, alive,
          net, scan, jobs, tick_todo, tick_tmp, window, holders, last>>

----------------------------------------------------------------------------
(* Values *)

Ids == {"A", "B", "C"}

\* step.StepStatus; "none" stands for "no row in the table".
success == "success"
queued == "queued"
pending == "pending"
cancel == "cancel"
working == "working"
error == "error"

\* tag = None in a step definition.
NullTag == "NULL"
\* tag_velocities[tag] = None.
NoVelocity == -1

LEASE == 60 * 60 * 2

DefaultLimit == 50
DefaultChunkSize == 100

\* The clock is advanced in jumps of a lease horizon, or of a second more, up to
\* MaxNow.
MaxNow == 7201
Jumps == {LEASE, LEASE + 1}

\* The dispatch counters of a window saturate at MaxCount.
MaxCount == 5

\* Arguments of get_steps.
ScopeLists == {<<"default">>, <<"other", "default">>}
Limits == {1, DefaultLimit}

\* Arguments of an error report: str(e) and traceback.format_exc().
Msgs == {"Invalid step status"}
Traces == {"Traceback"}
ChunkSizes == {1, DefaultChunkSize}

Range(f) == {f[i] : i \in DOMAIN f}
Max(a, b) == IF a > b THEN a ELSE b
Min(a, b) == IF a < b THEN a ELSE b

----------------------------------------------------------------------------
(* Bundles: what pipe_interpreter.get_steps_from_code returns *)

StepDef(parents, children, scope, priority, tag) ==
    [parents |-> parents, children |-> children, scope |-> scope,
     priority |-> priority, tag |-> tag]

\* A -> B -> C
Chain ==
    [order |-> <<"A", "B", "C">>,
     def |-> [s \in Ids |->
        CASE s = "A" -> StepDef(<<>>, <<"B">>, "default", 0, NullTag)
          [] s = "B" -> StepDef(<<"A">>, <<"C">>, "default", 0, NullTag)
          [] s = "C" -> StepDef(<<"B">>, <<>>, "default", 0, NullTag)],
     tags |-> <<>>]

\* A -> C <- B
Join ==
    [order |-> <<"A", "B", "C">>,
     def |-> [s \in Ids |->
        CASE s = "A" -> StepDef(<<>>, <<"C">>, "default", 1, NullTag)
          [] s = "B" -> StepDef(<<>>, <<"C">>, "other", 0, NullTag)
          [] s = "C" -> StepDef(<<"A", "B">>, <<>>, "default", 0, NullTag)],
     tags |-> <<>>]

\* A -> B, and C on its own
Split ==
    [order |-> <<"A", "B", "C">>,
     def |-> [s \in Ids |->
        CASE s = "A" -> StepDef(<<>>, <<"B">>, "default", 0, NullTag)
          [] s = "B" -> StepDef(<<"A">>, <<>>, "default", 2, NullTag)
          [] s = "C" -> StepDef(<<>>, <<>>, "other", 0, NullTag)],
     tags |-> <<>>]

\* three starters with one tag of velocity 2
Flat ==
    [order |-> <<"A", "B", "C">>,
     def |-> [s \in Ids |-> StepDef(<<>>, <<>>, "default", 0, "t")],
     tags |-> [x \in {"t"} |-> 2]]

\* A -> B; C is never uploaded
Pair ==
    [order |-> <<"A", "B">>,
     def |-> [s \in Ids |->
        CASE s = "A" -> StepDef(<<>>, <<"B">>, "default", 0, NullTag)
          [] s = "B" -> StepDef(<<"A">>, <<>>, "default", 0, NullTag)
          [] s = "C" -> StepDef(<<>>, <<>>, "other", 0, NullTag)],
     tags |-> <<>>]

\* three starters that differ in scope, priority and tag; the tag has velocity 1
Mixed ==
    [order |-> <<"A", "B", "C">>,
     def |-> [s \in Ids |->
        CASE s = "A" -> StepDef(<<>>, <<>>, "default", 1, "t")
          [] s = "B" -> StepDef(<<>>, <<>>, "default", 0, NullTag)
          [] s = "C" -> StepDef(<<>>, <<>>, "other", 0, NullTag)],
     tags |-> [x \in {"t"} |-> 1]]

\* two starters, the second of higher priority; C is never uploaded
Rising ==
    [order |-> <<"A", "B">>,
     def |-> [s \in Ids |->
        CASE s = "A" -> StepDef(<<>>, <<>>, "default", 0, NullTag)
          [] s = "B" -> StepDef(<<>>, <<>>, "default", 1, NullTag)
          [] s = "C" -> StepDef(<<>>, <<>>, "other", 0, NullTag)],
     tags |-> <<>>]

\* a cycle: A -> B -> C -> A
Ring ==
    [order |-> <<"A", "B", "C">>,
     def |-> [s \in Ids |->
        CASE s = "A" -> StepDef(<<"C">>, <<"B">>, "default", 0, NullTag)
          [] s = "B" -> StepDef(<<"A">>, <<"C">>, "default", 0, NullTag)
          [] s = "C" -> StepDef(<<"B">>, <<"A">>, "default", 0, NullTag)],
     tags |-> <<>>]

\* A is its own parent and child, and the parent of B twice over; C stands
\* alone
Loop ==
    [order |-> <<"A", "B", "C">>,
     def |-> [s \in Ids |->
        CASE s = "A" -> StepDef(<<"A">>, <<"A", "B", "B">>, "default", 0, NullTag)
          [] s = "B" -> StepDef(<<"A">>, <<>>, "default", 0, NullTag)
          [] s = "C" -> StepDef(<<>>, <<>>, "default", 0, NullTag)],
     tags |-> <<>>]

Worlds == {Chain, Join, Split, Flat, Pair, Mixed, Rising}

Def(s) == world.def[s]
Parents(s) == Range(Def(s).parents)
Children(s) == Range(Def(s).children)

\* The starters of a bundle: the steps without parents.
starters == {s \in Ids : Def(s).parents = <<>>}

\* The weakly connected component of s over the parent and child lists.
RECURSIVE Closure(_)
Closure(S) ==
    LET T == S \cup UNION {Parents(s) \cup Children(s) : s \in S}
    IN  IF T = S THEN S ELSE Closure(T)

Component(s) == Closure({s})

----------------------------------------------------------------------------
(* The step table *)

HasRow(tbl, s) == \E i \in DOMAIN tbl : tbl[i].id = s

StatusIn(tbl, s) ==
    IF HasRow(tbl, s)
    THEN tbl[CHOOSE i \in DOMAIN tbl : tbl[i].id = s].status
    ELSE "none"

EpochIn(tbl, s) ==
    IF HasRow(tbl, s)
    THEN tbl[CHOOSE i \in DOMAIN tbl : tbl[i].id = s].epoch
    ELSE -1

StatusOf(s) == StatusIn(steps, s)
EpochOf(s) == EpochIn(steps, s)

\* An UPDATE without its WHERE clause.
UpdateStatusEveryRow(tbl, ids, st, t) ==
    [i \in DOMAIN tbl |-> [tbl[i] EXCEPT !.status = st, !.epoch = t]]

\* UPDATE steps SET status = st, epoch = t WHERE id IN ids
UpdateStatus(tbl, ids, st, t) ==
    [i \in DOMAIN tbl |->
        IF tbl[i].id \in ids
        THEN [tbl[i] EXCEPT !.status = st, !.epoch = t]
        ELSE tbl[i]]

\* What last records: the operation and its step, whether it returned without
\* raising, the ids a get_steps returned and those of them it took from a
\* lease that ran out, and the payloads the blob GC deleted.
NoOp ==
    [op |-> "none", id |-> "none", ok |-> TRUE, ids |-> <<>>, reclaimed |-> {},
     deleted |-> {}]
Op(name, s, ok) == [NoOp EXCEPT !.op = name, !.id = s, !.ok = ok]

\* A lease on s ends when s leaves working.
HoldersAfter(tbl) ==
    [s \in Ids |-> IF StatusIn(tbl, s) = working THEN holders[s] ELSE 0]

\* No worker process is looked at.
NoJobs == <<>>

\* A worker that has not run the step, and one whose pool has just spawned
\* run(step_id): result is the status of the Result the body returned, stored
\* whether this execution wrote the payload, sent the reports of this execution, msg the report the coordinator has yet to take.
IdleJob ==
    [pc |-> "idle", result |-> "none", stored |-> FALSE, sent |-> 0, msg |-> "none"]
StartJob(j) == [j EXCEPT !.pc = "args", !.result = "none", !.stored = FALSE, !.sent = 0]

\* worker.work: for s in steps: await pool.spawn(run(s))
AfterSpawn(ids) ==
    [s \in DOMAIN jobs |-> IF s \in Range(ids) THEN StartJob(jobs[s]) ELSE jobs[s]]

\* connection_queue.put(None): what main puts to stop server_worker
Sentinel == [method |-> "None", id |-> "none", scopes |-> <<>>, frame |-> "none"]

\* No call of get_steps is between two pages.
NoScan ==
    [on |-> FALSE, scopes |-> <<>>, limit |-> 0, chunk |-> 0, offset |-> 0,
     g |-> [steps |-> <<>>, usage |-> <<>>, vel |-> <<>>]]

\* A request as a peer sends it: METHOD|-**-|PAYLOAD[-_-]. The payload is a
\* step id, or a JSON list of scopes for get-steps. frame tells what is wrong
\* with the bytes, if anything: "no-terminator" (the peer closed or stalled
\* before [-_-]), "no-separator", "bad-json" (a payload json cannot load),
\* "empty" (the terminator alone).
Request(method, id, scopes, frame) ==
    [method |-> method, id |-> id, scopes |-> scopes, frame |-> frame]

NoRequest == Request("none", "none", <<>>, "none")

\* connection_queue is empty and server_worker waits in connection_queue.get().
\* pc is where handle_client stands with the connection in hand, open whether
\* that connection is still open on this side, reply what was sent on it, reads
\* how many times recv came back without a byte.
NoConnection ==
    [queue |-> <<>>, cur |-> NoRequest, pc |-> "idle", open |-> FALSE,
     reply |-> <<>>, reads |-> 0]

\* handle_client returns (or raises) out of a handler that runs after the
\* `with connection` block; server_worker goes back to connection_queue.get().
\* A handler called on its own, outside handle_client, leaves net as it is.
AfterHandler ==
    IF net.pc = "handler" THEN [net EXCEPT !.pc = "idle", !.cur = NoRequest] ELSE net

\* get_steps returned inside the `with connection` block: the list is sent next.
AfterLease(ids) ==
    IF net.pc = "dispatch" THEN [net EXCEPT !.pc = "respond", !.reply = ids] ELSE net

----------------------------------------------------------------------------
\* The coordinator after load_db on an empty database.
Fresh ==
    /\ steps = <<>>
    /\ step_defs = {}
    /\ step_data = {}
    /\ tag_usage = <<>>
    /\ now = 0
    /\ admit_pc = 0
    /\ alive = TRUE
    /\ net = NoConnection
    /\ scan = NoScan
    /\ tick_todo = <<>>
    /\ tick_tmp = <<>>
    /\ window = [t \in {"t", NullTag} |-> [prev |-> 0, cur |-> 0]]
    /\ holders = [s \in Ids |-> 0]
    /\ last = NoOp

Init == world \in Worlds /\ Fresh /\ jobs = NoJobs

----------------------------------------------------------------------------
(* Admission: upload_pipe_code, run by a client process *)

\* The step the admission loop is at.
AdmitStep == world.order[(admit_pc \div 2) + 1]

\* set_step: the definition goes to the blob store under step/{id}.
set_step ==
    /\ admit_pc < 2 * Len(world.order)
    /\ admit_pc % 2 = 0
    /\ step_defs' = step_defs \cup {AdmitStep}
    /\ admit_pc' = admit_pc + 1
    /\ last' = NoOp
    /\ UNCHANGED <<net, scan, jobs, world, steps, step_data, tag_usage, now, alive, tick_todo,
                   tick_tmp, window, holders>>

\* An admission that queues every step.
InitialStatusQueued(s) == queued

\* The status upload_pipe_code gives a new row.
InitialStatus(s) == IF s \in starters THEN pending ELSE queued

\* upload_step: INSERT INTO steps, committed per step.
upload_step ==
    /\ admit_pc < 2 * Len(world.order)
    /\ admit_pc % 2 = 1
    /\ steps' = Append(steps,
            [id |-> AdmitStep, priority |-> Def(AdmitStep).priority,
             scope |-> Def(AdmitStep).scope, tag |-> Def(AdmitStep).tag,
             status |-> InitialStatus(AdmitStep), epoch |-> now,
             msg |-> "", trace |-> ""])
    /\ admit_pc' = admit_pc + 1
    /\ last' = NoOp
    /\ UNCHANGED <<net, scan, jobs, world, step_defs, step_data, tag_usage, now, alive, tick_todo,
                   tick_tmp, window, holders>>

\* The whole bundle has been uploaded.
Admitted == admit_pc = 2 * Len(world.order)

----------------------------------------------------------------------------
(* The transitive walks of _cancel, _reset and _check_to_delete_bucket_files *)

\* A walk in progress: the set already, the steps visited in order, and
\* whether get_step raised on a missing definition.
WalkStart == [already |-> {}, order |-> <<>>, failed |-> FALSE]

\* A walk that only climbs.
ParentsOnly(s) == Def(s).parents

\* The neighbours a walk recurses into, in the order of the code.
ParentsFirst(s) == Def(s).parents \o Def(s).children
ChildrenFirst(s) == Def(s).children \o Def(s).parents

RECURSIVE Visit(_, _, _, _), VisitList(_, _, _, _, _)

\* One call of the recursive function on s. addSelf: the call adds its own
\* id to already (the blob GC walk does, _cancel and _reset do not).
Visit(s, w, parentsFirst, addSelf) ==
    IF s \notin step_defs
    THEN [w EXCEPT !.failed = TRUE]
    ELSE LET w1 == [w EXCEPT !.order = Append(@, s),
                             !.already = IF addSelf THEN @ \cup {s} ELSE @]
         IN  VisitList(IF parentsFirst THEN ParentsFirst(s) ELSE ChildrenFirst(s),
                       1, w1, parentsFirst, addSelf)

VisitList(list, i, w, parentsFirst, addSelf) ==
    IF w.failed \/ i > Len(list)
    THEN w
    ELSE IF list[i] \in w.already
         THEN VisitList(list, i + 1, w, parentsFirst, addSelf)
         ELSE VisitList(list, i + 1,
                        Visit(list[i], [w EXCEPT !.already = @ \cup {list[i]}],
                              parentsFirst, addSelf),
                        parentsFirst, addSelf)

----------------------------------------------------------------------------
(* Blob GC *)

finished_statuses == {cancel, success}

\* A check that takes only success for finished.
AllFinishedSuccess(tbl, ids) ==
    \A i \in DOMAIN tbl : tbl[i].id \in ids => tbl[i].status = success

\* SELECT status FROM steps WHERE id IN ids: the rows found are all finished.
AllFinished(tbl, ids) ==
    \A i \in DOMAIN tbl : tbl[i].id \in ids => tbl[i].status \in finished_statuses

\* remove_data for every step of the list.
remove_data(data, ids) == data \ ids

\* _check_to_delete_bucket_files(step_id) on the table tbl: the payloads left,
\* and whether the walk raised.
check_to_delete_bucket_files(s, tbl) ==
    LET w == Visit(s, WalkStart, TRUE, TRUE)
        ids == Range(w.order)
    IN  [failed |-> w.failed,
         data |-> IF ~w.failed /\ AllFinished(tbl, ids)
                  THEN remove_data(step_data, ids)
                  ELSE step_data]

----------------------------------------------------------------------------
(* The handlers of done, pending, cancel, reset and error *)

\* What every handler leaves alone.
\* The report the handler has served is no longer on its way.
AfterReport ==
    [s \in DOMAIN jobs |->
        IF s = last'.id /\ jobs[s].msg = last'.op
        THEN [jobs[s] EXCEPT !.msg = "none"]
        ELSE jobs[s]]

HandlerFrame ==
    /\ net' = AfterHandler
    /\ jobs' = AfterReport
    /\ UNCHANGED <<scan, world, step_defs, tag_usage, now, admit_pc, tick_todo, tick_tmp,
                   window>>

\* get_step raised before anything was written.
Raised(name, s) ==
    /\ alive' = FALSE
    /\ last' = Op(name, s, FALSE)
    /\ UNCHANGED <<steps, step_data, holders>>

\* A done that leaves the children alone.
DoneRowsSelf(s) == UpdateStatus(steps, {s}, success, now)

\* The rows _done leaves: the step success, then every child pending.
DoneRows(s) ==
    UpdateStatus(UpdateStatus(steps, {s}, success, now), Children(s), pending, now)

_done(s) ==
    /\ alive
    /\ IF s \notin step_defs
       THEN Raised("done", s)
       ELSE LET rows == DoneRows(s)
                gc == check_to_delete_bucket_files(s, rows)
            IN  /\ steps' = rows
                /\ step_data' = gc.data
                /\ alive' = ~gc.failed
                /\ last' = [Op("done", s, ~gc.failed) EXCEPT
                                !.deleted = step_data \ gc.data]
                /\ holders' = HoldersAfter(rows)
    /\ HandlerFrame

\* A soft retry that puts the children of the step back as well.
PendingWithChildren(s) ==
    /\ alive
    /\ steps' = UpdateStatus(steps, {s} \cup Children(s), pending, now)
    /\ holders' = HoldersAfter(steps')
    /\ last' = Op("pending", s, TRUE)
    /\ UNCHANGED <<step_data, alive>>
    /\ HandlerFrame

_pending(s) ==
    /\ alive
    /\ steps' = UpdateStatus(steps, {s}, pending, now)
    /\ holders' = HoldersAfter(steps')
    /\ last' = Op("pending", s, TRUE)
    /\ UNCHANGED <<step_data, alive>>
    /\ HandlerFrame

\* A cancel that stops at the seed.
CancelWalkSeed(s) == [WalkStart EXCEPT !.order = <<s>>]

\* The walk of _cancel from s.
CancelWalk(s) == Visit(s, WalkStart, TRUE, FALSE)

\* A cancel that deletes the rows of the steps it reached.
CancelRowsDeleted(reached) == SelectSeq(steps, LAMBDA r : r.id \notin reached)

\* The rows _cancel leaves: every step the walk reached is cancel.
CancelRows(reached) == UpdateStatus(steps, reached, cancel, now)

_cancel(s) ==
    /\ alive
    /\ IF s \notin step_defs
       THEN Raised("cancel", s)
       ELSE LET w == CancelWalk(s)
                rows == CancelRows(Range(w.order))
                gc == IF w.failed
                      THEN [failed |-> TRUE, data |-> step_data]
                      ELSE check_to_delete_bucket_files(s, rows)
            IN  /\ steps' = rows
                /\ step_data' = gc.data
                /\ alive' = ~gc.failed
                /\ last' = [Op("cancel", s, ~gc.failed) EXCEPT
                                !.deleted = step_data \ gc.data]
                /\ holders' = HoldersAfter(rows)
    /\ HandlerFrame

\* The walk of _reset from s.
ResetWalk(s) == Visit(s, WalkStart, FALSE, FALSE)

\* A reset that gives a step the status of its admission.
ResetStatusAdmission(s) == InitialStatus(s)

\* The status _reset gives a step it visits.
ResetStatus(s) == IF Def(s).parents # <<>> THEN pending ELSE queued

\* The rows _reset leaves.
ResetRows(reached) ==
    [i \in DOMAIN steps |->
        IF steps[i].id \in reached
        THEN [steps[i] EXCEPT !.status = ResetStatus(steps[i].id), !.epoch = now]
        ELSE steps[i]]

_reset(s) ==
    /\ alive
    /\ IF s \notin step_defs
       THEN Raised("reset", s)
       ELSE LET w == ResetWalk(s)
                rows == ResetRows(Range(w.order))
            IN  /\ steps' = rows
                /\ alive' = ~w.failed
                /\ last' = Op("reset", s, ~w.failed)
                /\ holders' = HoldersAfter(rows)
                /\ UNCHANGED step_data
    /\ HandlerFrame

\* An error that marks the children of the step as well.
ErrorRowsWithChildren(s, msg, trace) ==
    [i \in DOMAIN steps |->
        IF steps[i].id \in {s} \cup Children(s)
        THEN [steps[i] EXCEPT !.status = error, !.epoch = now, !.msg = msg,
                              !.trace = trace]
        ELSE steps[i]]

\* UPDATE steps SET status = 'error', epoch = ?, msg = ?, trace = ? WHERE id = ?
ErrorRows(s, msg, trace) ==
    [i \in DOMAIN steps |->
        IF steps[i].id = s
        THEN [steps[i] EXCEPT !.status = error, !.epoch = now, !.msg = msg,
                              !.trace = trace]
        ELSE steps[i]]

_error(s, msg, trace) ==
    /\ alive
    /\ IF s \notin step_defs
       THEN Raised("error", s)
       ELSE /\ steps' = ErrorRows(s, msg, trace)
            /\ holders' = HoldersAfter(steps')
            /\ last' = Op("error", s, TRUE)
            /\ UNCHANGED <<step_data, alive>>
    /\ HandlerFrame

----------------------------------------------------------------------------
(* Workers and the clock *)

\* worker.job: a worker that got the definition of s stores the payload of s.
set_data(s) ==
    /\ s \in step_defs
    /\ step_data' = step_data \cup {s}
    /\ last' = NoOp
    /\ UNCHANGED <<net, scan, jobs, world, steps, step_defs, tag_usage, now, admit_pc, alive,
                   tick_todo, tick_tmp, window, holders>>

\* time.time() moves on.
AdvanceTime(d) ==
    /\ now + d <= MaxNow
    /\ now' = now + d
    /\ last' = NoOp
    /\ UNCHANGED <<net, scan, jobs, world, steps, step_defs, step_data, tag_usage, admit_pc, alive,
                   tick_todo, tick_tmp, window, holders>>

----------------------------------------------------------------------------
(* get_steps *)

\* A selection that takes every lease for expired.
LeaseExpiredAlways(epoch, t) == TRUE

\* A selection for which no lease ever runs out.
LeaseExpiredNever(epoch, t) == FALSE

\* epoch < time.time() - (60 * 60 * 2)
LeaseExpired(epoch, t) == epoch < t - LEASE

\* A selection that looks at the scope only.
EligibleAnyStatus(row, scopes, t) == row.scope \in Range(scopes)

\* The WHERE clause of the selection.
Eligible(row, scopes, t) ==
    /\ row.scope \in Range(scopes)
    /\ \/ row.status = pending
       \/ LeaseExpired(row.epoch, t) /\ row.status = working

\* CASE scope WHEN scopes[0] THEN 0 WHEN scopes[1] THEN 1 ... END
ScopeRank(scope, scopes) ==
    (CHOOSE i \in DOMAIN scopes :
        scopes[i] = scope /\ \A j \in 1..(i - 1) : scopes[j] # scope) - 1

\* An order that is the order of the rows in the table.
BeforeRowid(tbl, scopes, i, j) == i < j

\* ORDER BY CASE scope ... END, priority desc, epoch; rows that tie come in
\* rowid order.
Before(tbl, scopes, i, j) ==
    LET ri == ScopeRank(tbl[i].scope, scopes)
        rj == ScopeRank(tbl[j].scope, scopes)
    IN  \/ ri < rj
        \/ ri = rj /\ tbl[i].priority > tbl[j].priority
        \/ ri = rj /\ tbl[i].priority = tbl[j].priority /\ tbl[i].epoch < tbl[j].epoch
        \/ ri = rj /\ tbl[i].priority = tbl[j].priority /\ tbl[i].epoch = tbl[j].epoch
              /\ i < j

RECURSIVE OrderBy(_, _, _)
OrderBy(tbl, scopes, I) ==
    IF I = {}
    THEN <<>>
    ELSE LET m == CHOOSE i \in I : \A j \in I \ {i} : Before(tbl, scopes, i, j)
         IN  <<tbl[m]>> \o OrderBy(tbl, scopes, I \ {m})

\* The rows the SELECT returns with LIMIT chunk OFFSET offset.
Page(tbl, scopes, t, chunk, offset) ==
    LET all == OrderBy(tbl, scopes, {i \in DOMAIN tbl : Eligible(tbl[i], scopes, t)})
    IN  SubSeq(all, offset + 1, Min(offset + chunk, Len(all)))

\* The state of one call: the ids taken, tag_usage and tag_velocities.
ScanStart ==
    [steps |-> <<>>,
     usage |-> [t \in DOMAIN world.tags \cup DOMAIN tag_usage |->
                    IF t \in DOMAIN tag_usage THEN tag_usage[t] ELSE 0],
     vel |-> world.tags]

\* A test that lets every row through.
UnderVelocityUncapped(usage, velocity) == TRUE

\* tag_velocities[tag] is None or tag_usage[tag] < tag_velocities[tag]
UnderVelocity(usage, velocity) == velocity = NoVelocity \/ usage < velocity

RECURSIVE ScanRows(_, _, _, _)
\* for row in rows: ...
ScanRows(rows, i, g, limit) ==
    IF i > Len(rows)
    THEN g
    ELSE LET tag == rows[i].tag
             g1 == IF tag \notin DOMAIN g.vel
                   THEN [g EXCEPT !.vel = (tag :> NoVelocity) @@ @,
                                  !.usage = (tag :> 0) @@ @]
                   ELSE g
             take == UnderVelocity(g1.usage[tag], g1.vel[tag])
             g2 == IF take
                   THEN [g1 EXCEPT !.steps = Append(@, rows[i].id),
                                   !.usage = [@ EXCEPT ![tag] = @ + 1]]
                   ELSE g1
         IN  IF take /\ Len(g2.steps) >= limit
             THEN g2
             ELSE ScanRows(rows, i + 1, g2, limit)

\* A scan that stops after the first page.
ScanPagesOnce(g, scopes, limit, chunk, offset) ==
    ScanRows(Page(steps, scopes, now, chunk, 0), 1, g, limit)

RECURSIVE ScanPages(_, _, _, _, _)
\* while len(steps) < limit: ...
ScanPages(g, scopes, limit, chunk, offset) ==
    IF Len(g.steps) >= limit
    THEN g
    ELSE LET rows == Page(steps, scopes, now, chunk, offset)
         IN  IF rows = <<>>
             THEN g
             ELSE ScanPages(ScanRows(rows, 1, g, limit), scopes, limit, chunk,
                            offset + chunk)

\* How many of the ids carry the tag.
CountTag(ids, tag) == Cardinality({i \in DOMAIN ids : Def(ids[i]).tag = tag})

get_steps(scopes, limit, chunk) ==
    LET g == ScanPages(ScanStart, scopes, limit, chunk, 0)
        got == Range(g.steps)
    IN  /\ alive
        /\ steps' = UpdateStatus(steps, got, working, now)
        /\ tag_usage' = g.usage
        /\ holders' = [s \in Ids |->
              IF s \in got
              THEN IF StatusOf(s) = working /\ EpochOf(s) + LEASE >= now
                   THEN holders[s] + 1
                   ELSE 1
              ELSE HoldersAfter(steps')[s]]
        /\ window' = [t \in DOMAIN window |->
              IF t \in DOMAIN world.tags
              THEN [window[t] EXCEPT !.cur = Min(MaxCount, @ + CountTag(g.steps, t))]
              ELSE window[t]]
        /\ last' = [Op("get-steps", "none", TRUE) EXCEPT
                        !.ids = g.steps,
                        !.reclaimed = {s \in got : StatusOf(s) = working}]
        /\ net' = AfterLease(g.steps)
        /\ jobs' = AfterSpawn(g.steps)
        /\ UNCHANGED <<scan, world, step_defs, step_data, now, admit_pc, alive, tick_todo,
                       tick_tmp>>

----------------------------------------------------------------------------
(* decrement_tag_usage: the thread that ticks once a second *)

\* The orders in which a pass may go through the keys of tag_usage.
KeyLists(keys) ==
    {q \in UNION {[1..n -> keys] : n \in {Cardinality(keys)}} :
        \A i, j \in DOMAIN q : i # j => q[i] # q[j]}

\* A pass begins: list(tag_usage.keys())
tick_wake ==
    /\ tick_todo = <<>>
    /\ DOMAIN tag_usage # {}
    /\ tick_todo' \in KeyLists(DOMAIN tag_usage)
    /\ last' = NoOp
    /\ UNCHANGED <<net, scan, jobs, world, steps, step_defs, step_data, tag_usage, now, admit_pc,
                   alive, tick_tmp, window, holders>>

\* The read of tag_usage[tag] on the right of the assignment.
tick_read ==
    /\ tick_todo # <<>>
    /\ tick_tmp = <<>>
    /\ tick_tmp' = <<tag_usage[Head(tick_todo)]>>
    /\ last' = NoOp
    /\ UNCHANGED <<net, scan, jobs, world, steps, step_defs, step_data, tag_usage, now, admit_pc,
                   alive, tick_todo, window, holders>>

\* The value a tick stores for a usage it read.
Decremented(u) == Max(0, u - 1)

\* The store of tag_usage[tag] = max(0, ... - 1).
tick_write ==
    /\ tick_todo # <<>>
    /\ tick_tmp # <<>>
    /\ tag_usage' = [tag_usage EXCEPT ![Head(tick_todo)] = Decremented(tick_tmp[1])]
    /\ tick_todo' = Tail(tick_todo)
    /\ tick_tmp' = <<>>
    /\ window' = [window EXCEPT ![Head(tick_todo)] = [prev |-> @.cur, cur |-> 0]]
    /\ last' = NoOp
    /\ UNCHANGED <<net, scan, jobs, world, steps, step_defs, step_data, now, admit_pc, alive,
                   holders>>

----------------------------------------------------------------------------
\* The requests the handler thread serves, the admission loop and the workers'
\* payload writes. The error reports carry no text here: msg and trace are
\* only ever written, never read, so the statuses, epochs, payloads and leases
\* reached are those of reports with any text. ReportNext has the texts.
DagNext ==
    \/ set_step
    \/ upload_step
    \/ \E s \in Ids : _done(s)
    \/ \E s \in Ids : _pending(s)
    \/ \E s \in Ids : _cancel(s)
    \/ \E s \in Ids : _reset(s)
    \/ \E s \in Ids : _error(s, "", "")
    \/ \E s \in Ids : set_data(s)
    \/ \E scopes \in ScopeLists, limit \in Limits, chunk \in ChunkSizes :
            get_steps(scopes, limit, chunk)

\* The decrement thread.
TickNext == tick_wake \/ tick_read \/ tick_write

Next ==
    \/ DagNext
    \/ \E s \in Ids, msg \in Msgs, trace \in Traces : _error(s, msg, trace)
    \/ \E d \in Jumps : AdvanceTime(d)
    \/ TickNext

\* The whole coordinator.
Spec == Init /\ [][Next]_vars

\* The step graph engine on bundles without tag velocities. The clock stands
\* still and tag_usage is never decremented: a lease that expires is handed
\* out again without a change of status, and without a velocity no tag ever
\* holds a step back, so the statuses, definitions and payloads reached are
\* those of Spec.
DagInit == Init /\ world \in {Join, Split}
DagSpec == DagInit /\ [][DagNext]_vars

\* The engine with the clock, on a bundle of two steps.
LeaseNext == DagNext \/ \E d \in Jumps : AdvanceTime(d)
LeaseInit == Init /\ world = Pair
LeaseSpec == LeaseInit /\ [][LeaseNext]_vars

\* The scheduler and the decrement thread on a bundle of three starters with one
\* tag of velocity 2. _pending puts a leased step back so that it can be
\* dispatched again.
TagNext ==
    \/ set_step
    \/ upload_step
    \/ \E s \in Ids : _pending(s)
    \/ \E scopes \in ScopeLists, limit \in Limits, chunk \in ChunkSizes :
            get_steps(scopes, limit, chunk)
    \/ TickNext

TagInit == Init /\ world = Flat
TagSpec == TagInit /\ [][TagNext]_vars

\* worker.work: a worker asks for the steps of its scopes. The workers are
\* started once the bundle is admitted.
request_steps(scopes) == Admitted /\ get_steps(scopes, DefaultLimit, DefaultChunkSize)

\* worker.job: the worker that holds s stores the payload of s (a payload that
\* is there already is overwritten under the same key) ...
job_set_data(s) == StatusOf(s) = working /\ s \notin step_data /\ set_data(s)

\* ... and then reports done.
request_done(s) == StatusOf(s) = working /\ s \in step_data /\ _done(s)

\* A run to completion: a bundle is admitted, then workers lease and report
\* done, and the decrement thread ticks.
LiveNext ==
    \/ set_step
    \/ upload_step
    \/ \E scopes \in ScopeLists : request_steps(scopes)
    \/ \E s \in Ids : job_set_data(s)
    \/ \E s \in Ids : request_done(s)
    \/ TickNext

\* A call of get_steps for scopes would hand out a step.
Ready(scopes) ==
    /\ Admitted
    /\ alive
    /\ ScanPages(ScanStart, scopes, DefaultLimit, DefaultChunkSize, 0).steps # <<>>

\* Weak fairness of request_steps(scopes), its enabling condition written out:
\* a worker of the scope list cannot find steps to take for ever and never
\* call.
PollFairness(scopes) ==
    []<>(~Ready(scopes)) \/ []<><<request_steps(scopes)>>_vars

\* The admission loop runs on, a worker of every scope list keeps polling, a
\* worker that holds a step stores its payload and reports in the end, and
\* the decrement thread is never starved.
LiveFairness ==
    /\ WF_vars(set_step \/ upload_step)
    /\ \A scopes \in ScopeLists : PollFairness(scopes)
    /\ WF_vars(\E s \in Ids : job_set_data(s))
    /\ WF_vars(\E s \in Ids : request_done(s))
    /\ WF_vars(TickNext)

LiveSpec == Init /\ [][LiveNext]_vars /\ LiveFairness

----------------------------------------------------------------------------
(* Properties *)

\* The steps of the bundle.
Bundle == Range(world.order)

\* Every step of S has a row: no admission of S is under way.
Uploaded(S) == \A m \in S : HasRow(steps, m)

\* Every step of S is in a finished status.
Terminal(S) == \A m \in S : StatusOf(m) \in finished_statuses

\* C1: in every reachable state, every step whose status is pending has all of
\* its parents in status success.
C1_PendingHasParentsSuccess ==
    \A s \in Ids :
        StatusOf(s) = pending => \A p \in Parents(s) : StatusOf(p) = success

\* C2: in every reachable state, every step whose status is queued has at least
\* one parent whose status is not success.
C2_QueuedHasOpenParent ==
    \A s \in Ids :
        StatusOf(s) = queued => \E p \in Parents(s) : StatusOf(p) # success

\* C3: a step is never handed out by get-steps while an earlier lease on it is
\* still in force (the step is still working and its epoch is within LEASE).
C3_OneLeaseAtATime == \A s \in Ids : holders[s] <= 1

\* C3, the case: a get-steps call hands out again a step whose lease ran out.
C3_Reclaimed == last.op = "get-steps" /\ last.reclaimed # {}

\* C4: right after done(s) has returned, for a step s with a record in any
\* status, s is success and every child of s is pending.
C4_DoneSetsChildrenPending ==
    (last.op = "done" /\ last.ok /\ HasRow(steps, last.id)) =>
        /\ StatusOf(last.id) = success
        /\ \A c \in Children(last.id) : StatusOf(c) = pending

\* C5: right after cancel(s), run while no admission of the component of s is
\* under way, every member of the component of s is cancel.
C5_CancelWholeComponent ==
    (last.op = "cancel" /\ Uploaded(Component(last.id))) =>
        \A m \in Component(last.id) : StatusOf(m) = cancel

\* C5, the case: a cancel on a seed whose component has other members, parents
\* and children, all of them with a record.
C5_Cancelled ==
    /\ last.op = "cancel"
    /\ Uploaded(Component(last.id))
    /\ Cardinality(Component(last.id)) > 1

\* C6: right after reset(s), run while no admission of the component of s is
\* under way, every member without parents is queued and every member with
\* parents is pending.
C6_ResetWholeComponent ==
    (last.op = "reset" /\ Uploaded(Component(last.id))) =>
        \A m \in Component(last.id) :
            StatusOf(m) = IF Parents(m) = {} THEN queued ELSE pending

\* C6, the case: a reset on a seed whose component has other members, all of
\* them with a record.
C6_Reset ==
    /\ last.op = "reset"
    /\ Uploaded(Component(last.id))
    /\ Cardinality(Component(last.id)) > 1

\* C7: for every tag with velocity V, the steps of that tag dispatched in two
\* consecutive tick intervals (a window with one tick boundary) are at most
\* V + 1.
C7_WindowAtMostVPlusOne ==
    \A t \in DOMAIN world.tags :
        window[t].prev + window[t].cur <= world.tags[t] + 1

\* C8: after the blob GC that ends done(s) or cancel(s), if every step of the
\* component of s is success or cancel, no payload of the component is left.
C8_TerminalComponentHasNoPayload ==
    (last.op \in {"done", "cancel"} /\ Terminal(Component(last.id))) =>
        step_data \cap Component(last.id) = {}

\* C8, the case: a done or a cancel finished the component and its blob GC
\* deleted payloads.
C8_Collected ==
    /\ last.op \in {"done", "cancel"}
    /\ Terminal(Component(last.id))
    /\ last.deleted # {}

\* C9: the blob GC that ends done(s) or cancel(s) deletes no payload when some
\* member of the component of s is not success or cancel, a member with a
\* definition and no record included.
C9_OpenComponentKeepsPayloads ==
    (last.op \in {"done", "cancel"} /\ ~Terminal(Component(last.id))) =>
        last.deleted = {}

\* C10: once a bundle is admitted, workers that keep leasing and reporting done
\* bring every step of the bundle to success.
C10_EventuallyAllSuccess == <>(\A s \in Bundle : StatusOf(s) = success)

\* C10, the case: the last done of an admitted bundle leaves every step success.
C10_AllSuccess ==
    /\ Admitted
    /\ last.op = "done"
    /\ \A s \in Bundle : StatusOf(s) = success

\* C11: cancel(s) followed at once by reset(s), on a component whose records
\* all exist, leaves every member with the status its admission gave it
\* (starters pending, the others queued), so none in cancel.
C11_CancelResetIsFreshAdmission ==
    [][(/\ last.op = "cancel"
        /\ last.ok
        /\ Uploaded(Component(last.id))
        /\ last'.op = "reset"
        /\ last'.id = last.id)
       => \A m \in Component(last.id) : StatusIn(steps', m) = InitialStatus(m)]_vars

----------------------------------------------------------------------------
\* The handlers on a bundle of two steps, the error reports with their texts,
\* get_steps as handle_client calls it.
ReportNext ==
    \/ set_step
    \/ upload_step
    \/ \E s \in Ids : _done(s)
    \/ \E s \in Ids : _pending(s)
    \/ \E s \in Ids : _cancel(s)
    \/ \E s \in Ids : _reset(s)
    \/ \E s \in Ids, msg \in Msgs, trace \in Traces : _error(s, msg, trace)
    \/ \E s \in Ids : set_data(s)
    \/ \E scopes \in ScopeLists : get_steps(scopes, DefaultLimit, DefaultChunkSize)

ReportInit == Init /\ world = Pair
ReportSpec == ReportInit /\ [][ReportNext]_vars

\* C12: every upload of the admission loop appends exactly one record, for the
\* step in hand, with status pending exactly when the step is a starter of the
\* bundle and queued otherwise, with empty msg and trace, the definition of the
\* step being stored under step/{id}; when the loop ends every step of the
\* bundle has a record and a definition.
C12_AdmissionWrites ==
    [][(admit_pc % 2 = 1 /\ admit_pc' = admit_pc + 1)
       => LET r == steps'[Len(steps')]
          IN  /\ Len(steps') = Len(steps) + 1
              /\ \A i \in DOMAIN steps : steps'[i] = steps[i]
              /\ r.id = AdmitStep
              /\ r.status = IF AdmitStep \in starters THEN pending ELSE queued
              /\ r.msg = ""
              /\ r.trace = ""
              /\ AdmitStep \in step_defs'
              /\ (admit_pc' = 2 * Len(world.order)
                    => \A s \in Bundle : HasRow(steps', s) /\ s \in step_defs')]_vars

\* C12, the case: a bundle with a starter and a step that is not one has been
\* admitted while error reports with texts were handled.
C12_AdmittedBoth ==
    /\ Admitted
    /\ last = NoOp
    /\ \E i \in DOMAIN steps : steps[i].msg # ""
    /\ \E i \in DOMAIN steps : steps[i].id \notin starters

\* C13: a get-steps, a done or a cancel (with its blob GC) never runs on a step
\* table that holds the records of some and not of all steps of the bundle.
C13_AdmissionAtomic ==
    last.op \in {"get-steps", "done", "cancel"} =>
        \/ \A s \in Bundle : HasRow(steps, s)
        \/ \A s \in Bundle : ~HasRow(steps, s)

----------------------------------------------------------------------------
\* The client admits again a bundle whose ids are in the table: another run of
\* upload_pipe_code on the same steps, while the table has fewer than MaxRows
\* records.
MaxRows == 4

upload_pipe_code_again ==
    /\ Admitted
    /\ Len(steps) < MaxRows
    /\ admit_pc' = 0
    /\ last' = NoOp
    /\ UNCHANGED <<net, scan, jobs, world, steps, step_defs, step_data, tag_usage, now, alive,
                   tick_todo, tick_tmp, window, holders>>

AdmitNext ==
    \/ set_step
    \/ upload_step
    \/ upload_pipe_code_again
    \/ \E s \in Ids : _done(s)
    \/ \E s \in Ids : _pending(s)
    \/ \E s \in Ids : set_data(s)
    \/ \E scopes \in ScopeLists : get_steps(scopes, DefaultLimit, DefaultChunkSize)

AdmitInit == Init /\ world = Pair
AdmitSpec == AdmitInit /\ [][AdmitNext]_vars

\* C14: no two records of the step table have the same id.
C14_IdsUnique ==
    \A i, j \in DOMAIN steps : steps[i].id = steps[j].id => i = j

\* C15: every change of status follows the transition table: queued to pending
\* only when the parents are success, pending to working only by a lease,
\* working to success, pending or error only by the report of that name for
\* that step, and a step that is success, cancel or error changes only through
\* a cancel or a reset.
C15_PermittedTransitions ==
    [][\A s \in Ids :
        LET a == StatusOf(s)
            b == StatusIn(steps', s)
            op == last'.op
        IN  \/ a = b
            \/ a = "none"
            \/ op = "cancel" /\ b = cancel
            \/ op = "reset" /\ b \in {pending, queued}
            \/ /\ a = queued /\ b = pending /\ op = "done"
               /\ \A p \in Parents(s) : StatusIn(steps', p) = success
            \/ a = pending /\ b = working /\ op = "get-steps"
            \/ a = working /\ b = success /\ op = "done" /\ last'.id = s
            \/ a = working /\ b = pending /\ op = "pending" /\ last'.id = s
            \/ a = working /\ b = error /\ op = "error" /\ last'.id = s]_vars

\* C16: a report (done, pending, cancel, reset or error) for a step that is
\* already success, cancel or error is discarded: no step changes status.
C16_LateReportDiscarded ==
    [][(/\ last'.op \in {"done", "pending", "cancel", "reset", "error"}
        /\ StatusOf(last'.id) \in {success, cancel, error})
       => \A m \in Ids : StatusIn(steps', m) = StatusOf(m)]_vars

\* C17: terminal reports are idempotent: done(s) on a step that done(s) has
\* already made success (cancel(s) on a cancel step, error(s) on an error
\* step) changes the status of no step, whatever happened to the children of s
\* in between.
C17_TerminalReportIdempotent ==
    [][(\/ last'.op = "done" /\ StatusOf(last'.id) = success
        \/ last'.op = "cancel" /\ StatusOf(last'.id) = cancel
        \/ last'.op = "error" /\ StatusOf(last'.id) = error)
       => \A m \in Ids : StatusIn(steps', m) = StatusOf(m)]_vars

----------------------------------------------------------------------------
(* The scheduler on its own: selection, order, paging and rate caps *)

\* Steps that differ in scope, priority, tag and epoch: the clock moves and
\* reports put steps back or end them. The decrement thread is left out: the tag
\* of velocity 1 is free for its first lease and capped from then on.
SchedNext ==
    \/ set_step
    \/ upload_step
    \/ \E s \in Ids : _done(s)
    \/ \E s \in Ids : _pending(s)
    \/ \E s \in Ids : _error(s, "", "")
    \/ \E scopes \in ScopeLists, limit \in Limits, chunk \in ChunkSizes :
            get_steps(scopes, limit, chunk)
    \/ \E d \in Jumps : AdvanceTime(d)

SchedInit == Init /\ world \in {Mixed, Pair}
SchedSpec == SchedInit /\ [][SchedNext]_vars

C19_AtMostLimit ==
    [][\A scopes \in ScopeLists, limit \in Limits, chunk \in ChunkSizes :
        get_steps(scopes, limit, chunk) =>
            /\ Len(last'.ids) <= limit
            /\ Len(last'.ids) < limit =>
                  \A i \in DOMAIN steps :
                      (/\ Eligible(steps[i], scopes, now)
                       /\ steps[i].id \notin Range(last'.ids))
                      => /\ steps[i].tag \in DOMAIN world.tags
                         /\ tag_usage'[steps[i].tag] >= world.tags[steps[i].tag]]_vars

\* A call with the default limit returned the two other steps and left the
\* capped A pending.
C19_FewerThanLimit ==
    /\ world = Mixed
    /\ last.op = "get-steps"
    /\ Len(last.ids) = 2
    /\ StatusOf("A") = pending
    /\ tag_usage["t"] = 1

\* C20: a get_steps call returns a step only if its scope is in the requested
\* list and the call found it pending, or working with an epoch older than
\* LEASE; working steps with a live lease and queued, success, cancel and error
\* steps are not returned.
C20_OnlyEligibleReturned ==
    [][\A scopes \in ScopeLists, limit \in Limits, chunk \in ChunkSizes :
        get_steps(scopes, limit, chunk) =>
            \A s \in Range(last'.ids) :
                /\ Def(s).scope \in Range(scopes)
                /\ \/ StatusOf(s) = pending
                   \/ StatusOf(s) = working /\ EpochOf(s) + LEASE < now]_vars

\* A call took back an expired lease and left alone a step that is working
\* under a live lease, and a step that is success or error.
C20_ReclaimedBesideLive ==
    /\ last.op = "get-steps"
    /\ last.reclaimed # {}
    /\ \E s \in Ids \ Range(last.ids) : StatusOf(s) = working
    /\ \E s \in Ids \ Range(last.ids) : StatusOf(s) \in {success, error}

\* C21: a get_steps call for the scope of a step that is working with an epoch
\* older than LEASE, with room under the limit and under the velocity of the
\* step's tag, returns the step and starts its lease again: the step is working
\* with epoch = now.
C21_ExpiredLeaseReclaimed ==
    [][\A scopes \in ScopeLists, limit \in Limits, chunk \in ChunkSizes :
        get_steps(scopes, limit, chunk) =>
            \A i \in DOMAIN steps :
                LET tag == steps[i].tag
                    used == IF tag \in DOMAIN tag_usage THEN tag_usage[tag] ELSE 0
                    wanted == Cardinality({j \in DOMAIN steps :
                                  Eligible(steps[j], scopes, now) /\ steps[j].tag = tag})
                IN  (/\ steps[i].status = working
                     /\ steps[i].epoch + LEASE < now
                     /\ steps[i].scope \in Range(scopes)
                     /\ Len(last'.ids) < limit
                     /\ tag \in DOMAIN world.tags => used + wanted <= world.tags[tag])
                    => /\ steps[i].id \in Range(last'.ids)
                       /\ StatusIn(steps', steps[i].id) = working
                       /\ EpochIn(steps', steps[i].id) = now]_vars

\* A call made after the clock passed LEASE returned two steps, one of them a
\* lease that had run out, and both leases start now.
C21_LeaseRestarted ==
    /\ last.op = "get-steps"
    /\ last.reclaimed # {}
    /\ Len(last.ids) = 2
    /\ now > LEASE
    /\ \A s \in Range(last.ids) : StatusOf(s) = working /\ EpochOf(s) = now

\* C22: error(id, msg, trace) on a known step makes the records of that step
\* error with msg and trace (and epoch = now); every other record keeps its
\* status, epoch, msg and trace, and the blob store and tag_usage do not change.
C22_ErrorTouchesOnlyItsStep ==
    [][\A s \in Ids, msg \in Msgs, trace \in Traces :
        (_error(s, msg, trace) /\ last'.ok) =>
            /\ DOMAIN steps' = DOMAIN steps
            /\ \A i \in DOMAIN steps :
                  IF steps[i].id = s
                  THEN steps'[i] = [steps[i] EXCEPT !.status = error, !.epoch = now,
                                                    !.msg = msg, !.trace = trace]
                  ELSE steps'[i] = steps[i]
            /\ step_data' = step_data
            /\ step_defs' = step_defs
            /\ tag_usage' = tag_usage]_vars

\* An error report with its texts was recorded on B while A is success and the
\* payload of A is in the blob store.
C22_ErrorRecorded ==
    /\ last.op = "error" /\ last.ok /\ last.id = "B"
    /\ \E i \in DOMAIN steps :
          steps[i].id = "B" /\ steps[i].status = error /\ steps[i].msg \in Msgs
             /\ steps[i].trace \in Traces
    /\ StatusOf("A") = success
    /\ "A" \in step_data

\* C23: pending(id) makes the records of the named step pending with epoch =
\* now and changes nothing else: every other record, the blob store and the
\* stored definitions stay as they are; the step is then selected by a
\* get_steps call for its scope.
C23_PendingTouchesOnlyItsStep ==
    [][last'.op = "pending" =>
        /\ DOMAIN steps' = DOMAIN steps
        /\ \A i \in DOMAIN steps :
              IF steps[i].id = last'.id
              THEN /\ steps'[i] = [steps[i] EXCEPT !.status = pending, !.epoch = now]
                   /\ \A scopes \in ScopeLists :
                         steps[i].scope \in Range(scopes) =>
                             Eligible(steps'[i], scopes, now')
              ELSE steps'[i] = steps[i]
        /\ step_data' = step_data
        /\ step_defs' = step_defs
        /\ tag_usage' = tag_usage]_vars

\* After the clock moved, pending(A) put the finished A back while its child B
\* is leased and the payload of A is stored.
C23_SoftRetry ==
    /\ last.op = "pending" /\ last.id = "A"
    /\ now > 0
    /\ StatusOf("A") = pending /\ EpochOf("A") = now
    /\ StatusOf("B") = working
    /\ "A" \in step_data

----------------------------------------------------------------------------
(* server, server_worker and handle_client: requests as connections *)

\* connection_queue is unbounded; at most MaxQueue connections wait here.
MaxQueue == 1

\* The reads that come back empty are counted up to MaxReads.
MaxReads == 2

\* The requests peers send: well-formed ones for every method, one with the
\* method in capitals, one for a method the coordinator does not have, and the
\* malformed ones. C is a step id the store never holds (world Pair).
Requests ==
    {Request("get-steps", "none", <<"default">>, "ok"),
     Request("get-steps", "none", <<>>, "bad-json"),
     Request("done", "A", <<>>, "ok"),
     Request("done", "C", <<>>, "ok"),
     Request("DONE", "A", <<>>, "ok"),
     Request("pending", "A", <<>>, "ok"),
     Request("cancel", "A", <<>>, "ok"),
     Request("reset", "A", <<>>, "ok"),
     Request("error", "A", <<>>, "ok"),
     Request("error", "none", <<>>, "bad-json"),
     Request("status", "A", <<>>, "ok"),
     Request("done", "A", <<>>, "no-separator"),
     Request("done", "A", <<>>, "no-terminator"),
     Request("none", "none", <<>>, "empty")}

\* method.lower()
Lower(method) == IF method = "DONE" THEN "done" ELSE method

\* A coordinator that has a method status as well.
MethodsAndStatus ==
    {"get-steps", "done", "pending", "cancel", "reset", "error", "status"}

\* The methods handle_client has a branch for.
Methods == {"get-steps", "done", "pending", "cancel", "reset", "error"}

NetFrame == UNCHANGED <<scan, jobs, world, steps, step_defs, step_data, tag_usage, now, admit_pc,
                        tick_todo, tick_tmp, window, holders>>

\* server: s.accept() and connection_queue.put(connection)
accept(r) ==
    /\ Len(net.queue) < MaxQueue
    /\ Sentinel \notin Range(net.queue)
    /\ net.pc # "stopped"
    /\ net' = [net EXCEPT !.queue = Append(@, r)]
    /\ last' = NoOp
    /\ UNCHANGED alive
    /\ NetFrame

\* server_worker: connection = connection_queue.get()
dequeue ==
    /\ alive
    /\ net.pc = "idle"
    /\ net.queue # <<>>
    /\ Head(net.queue) # Sentinel
    /\ net' = [net EXCEPT !.queue = Tail(@), !.cur = Head(net.queue),
                          !.pc = "receive", !.open = TRUE, !.reply = <<>>,
                          !.reads = 0]
    /\ last' = NoOp
    /\ UNCHANGED alive
    /\ NetFrame

\* receive: while not data.endswith(b'[-_-]'): data += conn.recv(1024).
\* A frame with its terminator is read whole. Without it the peer has closed
\* (recv returns b'' at once, again and again) or stalled (recv does not
\* return): the loop has no way out. `if not data: return` ends the request
\* for the terminator alone.
receive ==
    /\ alive
    /\ net.pc = "receive"
    /\ CASE net.cur.frame = "no-terminator" ->
                /\ net.reads < MaxReads
                /\ net' = [net EXCEPT !.reads = @ + 1]
         [] net.cur.frame = "empty" ->
                net' = [net EXCEPT !.pc = "idle", !.open = FALSE, !.cur = NoRequest]
         [] OTHER ->
                net' = [net EXCEPT !.pc = "parse"]
    /\ last' = NoOp
    /\ UNCHANGED alive
    /\ NetFrame

\* handle_client, the rest of the `with connection` block: the split at the
\* separator and the branch on method.lower(). Leaving the block closes the
\* connection. An exception leaves the block too, and then server_worker,
\* which has no except clause: the thread ends.
parse ==
    /\ alive
    /\ net.pc = "parse"
    /\ LET r == net.cur
           m == Lower(r.method)
           raised == \/ r.frame = "no-separator"
                     \/ m = "get-steps" /\ r.frame = "bad-json"
       IN  /\ alive' = ~raised
           /\ net' =
                CASE raised ->
                        [net EXCEPT !.pc = "idle", !.open = FALSE, !.cur = NoRequest]
                  [] ~raised /\ m = "get-steps" ->
                        [net EXCEPT !.pc = "dispatch"]
                  [] ~raised /\ m \in Methods \ {"get-steps"} ->
                        [net EXCEPT !.pc = "handler", !.open = FALSE]
                  [] OTHER ->
                        [net EXCEPT !.pc = "idle", !.open = FALSE, !.cur = NoRequest,
                                    !.reply = <<"Unknown method.">>]
           /\ last' = Op("request", "none", ~raised)
    /\ NetFrame

\* steps = get_steps(scopes), inside the block
handle_get_steps ==
    /\ net.pc = "dispatch"
    /\ get_steps(net.cur.scopes, DefaultLimit, DefaultChunkSize)

\* send(connection, json_parser.dumps(steps)) and the end of the block
respond ==
    /\ alive
    /\ net.pc = "respond"
    /\ net' = [net EXCEPT !.pc = "idle", !.open = FALSE, !.cur = NoRequest]
    /\ last' = NoOp
    /\ UNCHANGED alive
    /\ NetFrame

\* The handlers that run after the block.
handle_done ==
    net.pc = "handler" /\ Lower(net.cur.method) = "done" /\ _done(net.cur.id)

handle_pending ==
    net.pc = "handler" /\ Lower(net.cur.method) = "pending" /\ _pending(net.cur.id)

handle_cancel ==
    net.pc = "handler" /\ Lower(net.cur.method) = "cancel" /\ _cancel(net.cur.id)

handle_reset ==
    net.pc = "handler" /\ Lower(net.cur.method) = "reset" /\ _reset(net.cur.id)

\* values = json_parser.loads(data) raises on a payload that is not JSON.
handle_error ==
    /\ net.pc = "handler"
    /\ Lower(net.cur.method) = "error"
    /\ IF net.cur.frame = "bad-json"
       THEN /\ alive
            /\ alive' = FALSE
            /\ net' = AfterHandler
            /\ last' = Op("error", "none", FALSE)
            /\ NetFrame
       ELSE \E msg \in Msgs, trace \in Traces : _error(net.cur.id, msg, trace)

ConnNext ==
    \/ set_step
    \/ upload_step
    \/ \E r \in Requests : accept(r)
    \/ dequeue
    \/ receive
    \/ parse
    \/ handle_get_steps
    \/ respond
    \/ handle_done
    \/ handle_pending
    \/ handle_cancel
    \/ handle_reset
    \/ handle_error

ConnInit == Init /\ world = Pair
ConnSpec == ConnInit /\ [][ConnNext]_vars

\* C24, as stated: a well-formed request whose method is not one of get-steps,
\* done, pending, cancel, reset, error is answered with 'Unknown method.', its
\* connection is closed and the request is over, and no record, blob or
\* tag_usage entry changes.
C24_UnknownMethodRefused ==
    [][(/\ net.pc = "parse" /\ net'.pc # "parse"
        /\ net.cur.frame = "ok"
        /\ net.cur.method \notin
              {"get-steps", "done", "pending", "cancel", "reset", "error"})
       => /\ net'.reply = <<"Unknown method.">>
          /\ ~net'.open
          /\ net'.pc = "idle"
          /\ UNCHANGED <<steps, step_defs, step_data, tag_usage>>]_vars

\* C24, amended: the same for a request whose method, put in lower case, is
\* not one of the six; a method that differs from one of them in case only is
\* served as that method.
C24_UnknownMethodRefusedFolded ==
    [][(/\ net.pc = "parse" /\ net'.pc # "parse"
        /\ net.cur.frame = "ok"
        /\ net.cur.method \notin
              {"get-steps", "done", "pending", "cancel", "reset", "error", "DONE"})
       => /\ net'.reply = <<"Unknown method.">>
          /\ ~net'.open
          /\ net'.pc = "idle"
          /\ UNCHANGED <<steps, step_defs, step_data, tag_usage>>]_vars

\* A request for an unknown method was refused while the table holds records.
C24_Refused ==
    /\ net.reply = <<"Unknown method.">>
    /\ ~net.open
    /\ net.pc = "idle"
    /\ steps # <<>>
    /\ last.op = "request"

\* C25: a request that raises (no separator, a payload that is not JSON, an
\* unknown step id) does not stop the coordinator: whenever a connection waits
\* in the queue and no request is in hand, server_worker is there to take it.
C25_QueuedIsServed == (net.queue # <<>> /\ net.pc = "idle") => alive

\* C26: a done, pending, cancel, reset or error request that names a step id
\* the store does not hold fails, and changes nothing: no record, no payload
\* and no definition is written or deleted.
C26_AbsentIdFailsUnchanged ==
    [][(/\ last'.op \in {"done", "pending", "cancel", "reset", "error"}
        /\ last'.id \notin step_defs)
       => /\ ~last'.ok
          /\ UNCHANGED <<steps, step_data, step_defs>>]_vars

\* C27: reading a request ends: when the peer has closed its connection before
\* the terminator, the read that comes back without a byte is the last one on
\* that connection (the coordinator closes it and goes on to the next one).
C27_EmptyReadEndsRequest == net.reads <= 1

\* C28: the state operation of a request (done, pending, cancel, reset, error,
\* or the lease commit of get-steps) runs while the connection of that request
\* is still open: the coordinator closes the connection only afterwards.
C28_OperationBeforeClose ==
    [][(net.pc \in {"handler", "dispatch"} /\ net'.pc # net.pc) => net.open]_vars

\* C29: the scheduler and the decrement thread update tag_usage under one
\* mutex, so no update is lost: the value a tick stores for a tag is one less
\* (not below 0) than the value tag_usage holds for that tag at that moment.
C29_NoLostUpdate ==
    [][(tick_tmp # <<>> /\ tick_tmp' = <<>>)
       => tag_usage'[Head(tick_todo)] = Decremented(tag_usage[Head(tick_todo)])]_vars

----------------------------------------------------------------------------
(* Workers that are already polling while a bundle is admitted *)

\* worker.work: a worker asks for the steps of its scopes, whether or not an
\* admission is under way.
work(scopes) == alive /\ get_steps(scopes, DefaultLimit, DefaultChunkSize)

EagerNext ==
    \/ set_step
    \/ upload_step
    \/ \E scopes \in ScopeLists : work(scopes)
    \/ \E s \in Ids : job_set_data(s)
    \/ \E s \in Ids : request_done(s)

\* A call of get_steps for scopes would hand out a step now.
ReadyNow(scopes) ==
    /\ alive
    /\ ScanPages(ScanStart, scopes, DefaultLimit, DefaultChunkSize, 0).steps # <<>>

\* The admission loop runs on, a worker of every scope list keeps polling (weak
\* fairness of work(scopes), its enabling condition written out), and a worker
\* that holds a step stores its payload and reports done in the end.
EagerFairness ==
    /\ WF_vars(set_step \/ upload_step)
    /\ \A scopes \in ScopeLists :
          []<>(~ReadyNow(scopes)) \/ []<><<work(scopes)>>_vars
    /\ WF_vars(\E s \in Ids : job_set_data(s))
    /\ WF_vars(\E s \in Ids : request_done(s))

EagerInit == Init /\ world \in {Pair, Join, Split}
EagerSpec == EagerInit /\ [][EagerNext]_vars /\ EagerFairness

\* C30: after done(s) has been applied, every child of s is returned by a later
\* get_steps call, whatever else is served in between and even if the bundle
\* was still being admitted when the done came in.
C30_ChildrenOfDoneDispatched ==
    \A s \in Ids, c \in Ids :
        (last.op = "done" /\ last.id = s /\ c \in Children(s))
            ~> (last.op = "get-steps" /\ c \in Range(last.ids))

\* C31: cancellation converges and holds: once every member of a component is
\* cancel, every member stays cancel until a reset, whatever reports come in
\* from workers that still hold leases on members of the component.
C31_CancelledStaysCancelled ==
    [][\A s \in Ids :
        (/\ Uploaded(Component(s))
         /\ \A m \in Component(s) : StatusOf(m) = cancel
         /\ last'.op # "reset")
        => \A m \in Component(s) : StatusIn(steps', m) = cancel]_vars

\* C32: with at least V pending steps of a tag of velocity V, a get_steps call
\* (default limit) made once a tick of the decrement thread has passed since
\* the last dispatches of that tag returns V steps of the tag.
C32_VMoreAfterATick ==
    [][\A scopes \in ScopeLists, chunk \in ChunkSizes, t \in DOMAIN world.tags :
        (/\ get_steps(scopes, DefaultLimit, chunk)
         /\ tick_todo = <<>> /\ tick_tmp = <<>>
         /\ window[t].prev > 0 /\ window[t].cur = 0
         /\ Cardinality({i \in DOMAIN steps :
                /\ steps[i].tag = t
                /\ steps[i].status = pending
                /\ steps[i].scope \in Range(scopes)}) >= world.tags[t])
        => CountTag(last'.ids, t) = world.tags[t]]_vars

-----------------------------------------------------------------------------
(* get_steps page by page: every page is a SELECT of its own, with the
   time.time() of its moment, and the admission of another process or the
   clock may act between two of them. *)

\* The call begins: the tags are read and tag_usage gets its new keys.
scan_begin(scopes, limit, chunk) ==
    /\ alive
    /\ ~scan.on
    /\ scan' = [on |-> TRUE, scopes |-> scopes, limit |-> limit, chunk |-> chunk,
                offset |-> 0, g |-> ScanStart]
    /\ tag_usage' = ScanStart.usage
    /\ last' = NoOp
    /\ UNCHANGED <<net, jobs, world, steps, step_defs, step_data, now, admit_pc, alive, tick_todo,
                   tick_tmp, window, holders>>

\* One turn of the while loop that fetched rows: the for loop over them and
\* offset += chunk_size.
scan_page ==
    LET rows == Page(steps, scan.scopes, now, scan.chunk, scan.offset)
        g == ScanRows(rows, 1, [scan.g EXCEPT !.usage = tag_usage], scan.limit)
    IN  /\ scan.on
        /\ Len(scan.g.steps) < scan.limit
        /\ rows # <<>>
        /\ scan' = [scan EXCEPT !.g = g, !.offset = @ + scan.chunk]
        /\ tag_usage' = g.usage
        /\ last' = NoOp
        /\ UNCHANGED <<net, jobs, world, steps, step_defs, step_data, now, admit_pc, alive,
                       tick_todo, tick_tmp, window, holders>>

\* The loop is left, at the limit or on an empty page, and the UPDATE commits.
scan_commit ==
    LET got == Range(scan.g.steps)
    IN  /\ scan.on
        /\ \/ Len(scan.g.steps) >= scan.limit
           \/ Page(steps, scan.scopes, now, scan.chunk, scan.offset) = <<>>
        /\ steps' = UpdateStatus(steps, got, working, now)
        /\ holders' = [s \in Ids |->
              IF s \in got
              THEN IF StatusOf(s) = working /\ EpochOf(s) + LEASE >= now
                   THEN holders[s] + 1
                   ELSE 1
              ELSE HoldersAfter(steps')[s]]
        /\ window' = [t \in DOMAIN window |->
              IF t \in DOMAIN world.tags
              THEN [window[t] EXCEPT !.cur = Min(MaxCount, @ + CountTag(scan.g.steps, t))]
              ELSE window[t]]
        /\ last' = [Op("get-steps", "none", TRUE) EXCEPT
                        !.ids = scan.g.steps,
                        !.reclaimed = {s \in got : StatusOf(s) = working}]
        /\ scan' = NoScan
        /\ UNCHANGED <<net, jobs, world, step_defs, step_data, tag_usage, now, admit_pc, alive,
                       tick_todo, tick_tmp>>

PageNext ==
    \/ set_step
    \/ upload_step
    \/ \E scopes \in ScopeLists, limit \in Limits, chunk \in ChunkSizes :
          scan_begin(scopes, limit, chunk)
    \/ scan_page
    \/ scan_commit
    \/ \E d \in Jumps : AdvanceTime(d)

PageInit == Init /\ world \in {Rising, Mixed}

PageSpec == PageInit /\ [][PageNext]_vars

\* C33: the ids one call of get_steps returns are pairwise distinct, whatever
\* the chunk size and whatever an admission or the clock changed between two
\* pages of the scan.
C33_IdsPairwiseDistinct ==
    last.op = "get-steps" =>
        \A i, j \in DOMAIN last.ids : last.ids[i] = last.ids[j] => i = j

-----------------------------------------------------------------------------
(* The connection layer with the clock, so that a lease can run out between two
   requests. *)

ServeNext ==
    \/ ConnNext
    \/ \E d \in Jumps : AdvanceTime(d)

ServeSpec == ConnInit /\ [][ServeNext]_vars

\* C34: a get-steps request changes the rows of the ids it returns and no other:
\* those rows are working with epoch = now when the call has committed, which is
\* before the response is sent on the still open connection, and every other row
\* is as it was.
C34_LeaseWritesOnlyReturned ==
    [][handle_get_steps =>
        /\ DOMAIN steps' = DOMAIN steps
        /\ \A i \in DOMAIN steps :
              IF steps[i].id \in Range(net'.reply)
              THEN steps'[i] = [steps[i] EXCEPT !.status = working, !.epoch = now]
              ELSE steps'[i] = steps[i]
        /\ net'.pc = "respond"
        /\ net'.open]_vars

\* A response about to be sent that carries a reclaimed step while the row of a
\* finished step stands as it was.
C34_ReclaimedWhileOtherKept ==
    /\ net.pc = "respond"
    /\ net.reply = <<"B">>
    /\ last.reclaimed = {"B"}
    /\ StatusOf("B") = working /\ EpochOf("B") = now /\ now > 0
    /\ StatusOf("A") = success

-----------------------------------------------------------------------------
(* The limiter over a bundle whose steps all carry the tag of velocity 2 and
   over one that has a tag of velocity 1 beside steps without a tag. *)

UsageInit == Init /\ world \in {Flat, Mixed}

UsageSpec == UsageInit /\ [][TagNext]_vars

-----------------------------------------------------------------------------
(* The walks over graphs with cycles, beside a graph without. *)

WalkNext ==
    \/ set_step
    \/ upload_step
    \/ \E s \in Ids : _done(s)
    \/ \E s \in Ids : _cancel(s)
    \/ \E s \in Ids : _reset(s)
    \/ \E s \in Ids : set_data(s)

\* The parser is trusted to return an acyclic bundle and the coordinator does
\* not look: Ring and Loop are what it stores when handed one that is not.
WalkInit == world \in {Ring, Loop, Join} /\ Fresh /\ jobs = NoJobs

WalkSpec == WalkInit /\ [][WalkNext]_vars

\* C36: over the definitions of a component that are all stored, the walk of
\* _cancel, the walk of _reset and the walk of the blob GC each come to an end
\* without raising, after at most one call per member and one more for the
\* seed, and the steps they called are exactly the members of the seed's weakly
\* connected component; this on graphs with cycles too.
C36_WalksEndAndCoverComponent ==
    \A s \in step_defs :
        Component(s) \subseteq step_defs =>
            \A w \in {CancelWalk(s), ResetWalk(s), Visit(s, WalkStart, TRUE, TRUE)} :
                /\ ~w.failed
                /\ Range(w.order) = Component(s)
                /\ Len(w.order) <= Cardinality(Component(s)) + 1

\* A cancel from inside the cycle has run over the whole of it, the seed twice.
C36_CycleCancelled ==
    /\ world = Ring
    /\ last.op = "cancel" /\ last.id = "B" /\ last.ok
    /\ \A m \in Ids : StatusOf(m) = cancel
    /\ Len(CancelWalk("B").order) = 4

-----------------------------------------------------------------------------
(* Shutdown: main leaves server(), puts the sentinel and joins server_worker *)

\* main, finally: connection_queue.put(None). The accept loop has ended.
shutdown ==
    /\ Sentinel \notin Range(net.queue)
    /\ net.pc # "stopped"
    /\ net' = [net EXCEPT !.queue = Append(@, Sentinel)]
    /\ last' = NoOp
    /\ UNCHANGED alive
    /\ NetFrame

\* server_worker: connection is None, break
stop ==
    /\ alive
    /\ net.pc = "idle"
    /\ net.queue # <<>>
    /\ Head(net.queue) = Sentinel
    /\ net' = [net EXCEPT !.queue = Tail(@), !.pc = "stopped"]
    /\ last' = NoOp
    /\ UNCHANGED alive
    /\ NetFrame

ShutNext ==
    \/ ConnNext
    \/ shutdown
    \/ stop

ShutSpec == ConnInit /\ [][ShutNext]_vars

\* C37: server_worker takes a connection only when it has none in hand, and
\* always the one accepted first of those waiting; and once main has put the
\* sentinel and the thread has ended, no connection that was put in the queue
\* before the sentinel is left in it.
C37_FifoAndDrainedAtExit ==
    /\ [][dequeue => /\ net.pc = "idle"
                     /\ net'.cur = Head(net.queue)
                     /\ net'.queue = Tail(net.queue)]_vars
    /\ []((net.pc = "stopped" \/ (~alive /\ Sentinel \in Range(net.queue))) =>
             \A i \in DOMAIN net.queue : net.queue[i] = Sentinel)


\* C38: no operation removes a row of the step table or a stored step
\* definition: every row stays at its place with its id, so the ids in the
\* table only grow, and the definitions only grow; what done, cancel and the
\* blob GC delete are payloads.
C38_RecordsNeverRemoved ==
    [][/\ Len(steps') >= Len(steps)
       /\ \A i \in DOMAIN steps : steps'[i].id = steps[i].id
       /\ step_defs \subseteq step_defs'
       /\ last'.deleted = step_data \ step_data']_vars

\* The blob GC has just deleted payloads and both rows and both definitions
\* are there.
C38_PayloadsGoneRecordsKept ==
    /\ last.op \in {"done", "cancel"}
    /\ last.deleted # {}
    /\ {steps[i].id : i \in DOMAIN steps} = {"A", "B"}
    /\ step_defs = {"A", "B"}


\* C39: whenever a step is held by a worker (leased and not yet reported), the
\* payload of every one of its parents is in the blob store.
C39_ParentPayloadsPresent ==
    \A s \in Ids :
        (HasRow(steps, s) /\ StatusOf(s) = working) => Parents(s) \subseteq step_data

-----------------------------------------------------------------------------
(* worker.job: one execution of a leased step, and the coordinator taking the
   reports *)

\* The statuses a body returns in its Result; working stands for every status
\* that job has no branch for.
BodyResults == {success, pending, "reset", cancel, working}

\* A worker that reports done whatever the result.
ReportOfAlwaysDone(result) == "done"

\* The branch of job for the status of the result; "raise" is the else branch.
ReportOf(result) ==
    CASE result = success -> "done"
      [] result = pending -> "pending"
      [] result = "reset" -> "reset"
      [] result = cancel -> "cancel"
      [] OTHER -> "raise"

JobFrame ==
    /\ last' = NoOp
    /\ UNCHANGED <<net, scan, world, steps, step_defs, tag_usage, now, admit_pc, alive,
                   tick_todo, tick_tmp, window, holders>>

\* args = [pipeline.get_data(_id) for _id in _step.parents]: get_data raises
\* when a payload is not there.
job_args(s) ==
    /\ jobs[s].pc = "args"
    /\ jobs' = [jobs EXCEPT ![s].pc =
                    IF Parents(s) \subseteq step_data THEN "body" ELSE "except"]
    /\ UNCHANGED step_data
    /\ JobFrame

\* r = _step.run(*args): the body returns a Result or raises.
job_body(s) ==
    /\ jobs[s].pc = "body"
    /\ \/ \E r \in BodyResults :
             jobs' = [jobs EXCEPT ![s].pc = "store", ![s].result = r]
       \/ jobs' = [jobs EXCEPT ![s].pc = "except"]
    /\ UNCHANGED step_data
    /\ JobFrame

\* pipeline.set_data(_step.id, r.data)
job_store(s) ==
    /\ jobs[s].pc = "store"
    /\ step_data' = step_data \cup {s}
    /\ jobs' = [jobs EXCEPT ![s].pc = "report", ![s].stored = TRUE]
    /\ JobFrame

\* The if/elif chain on r.status: one request_*, or raise in the else branch.
job_report(s) ==
    /\ jobs[s].pc = "report"
    /\ jobs[s].msg = "none"
    /\ jobs' = IF ReportOf(jobs[s].result) = "raise"
               THEN [jobs EXCEPT ![s].pc = "except"]
               ELSE [jobs EXCEPT ![s].pc = "end", ![s].sent = @ + 1,
                                 ![s].msg = ReportOf(jobs[s].result)]
    /\ UNCHANGED step_data
    /\ JobFrame

\* except Exception: request_error(_step.id, str(e), traceback)
job_except(s) ==
    /\ jobs[s].pc = "except"
    /\ jobs[s].msg = "none"
    /\ jobs' = [jobs EXCEPT ![s].pc = "end", ![s].sent = @ + 1, ![s].msg = "error"]
    /\ UNCHANGED step_data
    /\ JobFrame

\* handle_client takes the report that is on its way.
serve_done(s) == jobs[s].msg = "done" /\ _done(s)
serve_pending(s) == jobs[s].msg = "pending" /\ _pending(s)
serve_reset(s) == jobs[s].msg = "reset" /\ _reset(s)
serve_cancel(s) == jobs[s].msg = "cancel" /\ _cancel(s)
serve_error(s) == jobs[s].msg = "error" /\ \E msg \in Msgs, trace \in Traces : _error(s, msg, trace)

WorkerNext ==
    \/ set_step
    \/ upload_step
    \/ \E scopes \in ScopeLists : work(scopes)
    \/ \E s \in Ids : job_args(s)
    \/ \E s \in Ids : job_body(s)
    \/ \E s \in Ids : job_store(s)
    \/ \E s \in Ids : job_report(s)
    \/ \E s \in Ids : job_except(s)
    \/ \E s \in Ids : serve_done(s)
    \/ \E s \in Ids : serve_pending(s)
    \/ \E s \in Ids : serve_reset(s)
    \/ \E s \in Ids : serve_cancel(s)
    \/ \E s \in Ids : serve_error(s)

WorkerInit == world \in {Pair, Join} /\ Fresh /\ jobs = [s \in Ids |-> IdleJob]

WorkerSpec == WorkerInit /\ [][WorkerNext]_vars

====
